---- MODULE Spec2Model ----
(***************************************************************************)
(* Model of the Meetly recommendation engine (src/recommender.py) and of   *)
(* the planner that calls it (src/views.py).                               *)
(*                                                                         *)
(* Text is a sequence of one-character strings, so that lower(), strip(),  *)
(* split(','), the substring test and the TF-IDF tokenizer are computed on *)
(* characters as the code computes them.  Scores are fixed-point numbers   *)
(* in units of 1/Scale (Scale stands for 1.0); timestamps are ticks.       *)
(***************************************************************************)
EXTENDS Integers, Sequences, FiniteSets, TLC

VARIABLES
    events_df,        \* the candidate table handed to find_best_slots_for_group
    user_busy_map,    \* name -> list of busy slots (a dict: names may be absent)
    selected_users,   \* the planning group, in multiselect order
    all_user_prefs,   \* name -> comma separated preference string
    prev_run,         \* the planning request before the last one
    last_run,         \* the last planning request and what it returned
    availability,     \* one call of check_user_availability and what it returned
    local_events,     \* one call of load_local_events and what it returned
    users,            \* the users table of the database
    saved_events,     \* the saved_events table of the database
    db_call,          \* the last call of add_user or add_saved_event and what it returned
    session           \* the Streamlit session of one browser tab and its last
                      \* call of get_google_service

vars == <<events_df, user_busy_map, selected_users, all_user_prefs,
          prev_run, last_run, availability, local_events,
          users, saved_events, db_call, session>>

\* The state outside the planner: the database and the session.
store_vars == <<users, saved_events, db_call, session>>

\* The state of the planner and the loader.
planner_vars == <<events_df, user_busy_map, selected_users, all_user_prefs,
                  prev_run, last_run, availability, local_events>>

-----------------------------------------------------------------------------
(* Bounds of the model                                                     *)

MaxTime == 2
MaxBusy == 1
MaxEvents == 2

(* Scores are float64 in the code and fixed point here.  Scale stands for  *)
(* 1.0 and is divisible by every group size the model reaches.  One step   *)
(* of the scale stands for the gap between 1.0 and the next float64 above  *)
(* it (2^-52); every score that exact arithmetic produces is an even       *)
(* number of steps, so no such score lies between Scale and Scale + 1.     *)
Scale == 2 * 2 * 2 * 2 * 3 * 5 * 5

\* The float64 next above 1.0: 1.0000000000000002
NextAfterOne == Scale + 1

-----------------------------------------------------------------------------
(* Strings                                                                 *)

UpperCase == <<"A","B","C","D","E","F","G","H","I","J","K","L","M",
               "N","O","P","Q","R","S","T","U","V","W","X","Y","Z">>
LowerCase == <<"a","b","c","d","e","f","g","h","i","j","k","l","m",
               "n","o","p","q","r","s","t","u","v","w","x","y","z">>

Range(s) == {s[i] : i \in DOMAIN s}

Letters == Range(UpperCase) \cup Range(LowerCase)

\* The lowercase letter of each uppercase letter.
LowerOf == [c \in Range(UpperCase) |-> LowerCase[CHOOSE i \in 1..26 : UpperCase[i] = c]]

LowerChar(c) == IF c \in DOMAIN LowerOf THEN LowerOf[c] ELSE c

\* str.lower()
Lower(s) == [i \in DOMAIN s |-> LowerChar(s[i])]

IsSpace(c) == c = " "

RECURSIVE LStrip(_)
LStrip(s) == IF s # <<>> /\ IsSpace(Head(s)) THEN LStrip(Tail(s)) ELSE s

RECURSIVE RStrip(_)
RStrip(s) ==
    IF s # <<>> /\ IsSpace(s[Len(s)]) THEN RStrip(SubSeq(s, 1, Len(s) - 1)) ELSE s

\* str.strip()
Strip(s) == RStrip(LStrip(s))

\* str.split(','): always at least one piece
RECURSIVE SplitFrom(_, _)
SplitFrom(s, cur) ==
    IF s = <<>> THEN <<cur>>
    ELSE IF Head(s) = "," THEN <<cur>> \o SplitFrom(Tail(s), <<>>)
    ELSE SplitFrom(Tail(s), Append(cur, Head(s)))

SplitComma(s) == SplitFrom(s, <<>>)

\* needle in hay
Contains(hay, needle) ==
    \E i \in 1..(Len(hay) - Len(needle) + 1) :
        SubSeq(hay, i, i + Len(needle) - 1) = needle

\* The parts laid end to end, the separator left out.
RECURSIVE Concat(_, _)
Concat(sep, parts) ==
    IF parts = <<>> THEN <<>> ELSE Head(parts) \o Concat(sep, Tail(parts))

\* sep.join(parts)
RECURSIVE Join(_, _)
Join(sep, parts) ==
    IF parts = <<>> THEN <<>>
    ELSE IF Len(parts) = 1 THEN parts[1]
    ELSE parts[1] \o sep \o Join(sep, Tail(parts))

-----------------------------------------------------------------------------
(* TfidfVectorizer(stop_words='english') and cosine_similarity             *)

Digits == {"0","1","2","3","4","5","6","7","8","9"}

\* \w of the default token_pattern (?u)\b\w\w+\b
WordChars == Letters \cup Digits \cup {"_"}

IsWordChar(c) == c \in WordChars

\* The members of sklearn's English stop word list that are made of the
\* words the model's texts use.
StopWords ==
    { <<"i","t">>, <<"i","s">>, <<"a","n">>, <<"a","t">>, <<"i","n">>,
      <<"o","f">>, <<"t","o">>, <<"a","n","d">>, <<"t","h","e">>,
      <<"f","o","r">>, <<"w","i","t","h">>, <<"p","a","r","t">> }

\* Maximal runs of word characters, two characters or longer, in order.
RECURSIVE WordRuns(_, _)
WordRuns(s, cur) ==
    IF s = <<>> THEN (IF Len(cur) >= 2 THEN <<cur>> ELSE <<>>)
    ELSE IF IsWordChar(Head(s)) THEN WordRuns(Tail(s), Append(cur, Head(s)))
    ELSE (IF Len(cur) >= 2 THEN <<cur>> ELSE <<>>) \o WordRuns(Tail(s), <<>>)

\* The analyzer: lowercase, tokenize, drop stop words.
Analyze(doc) == SelectSeq(WordRuns(Lower(doc), <<>>), LAMBDA w : w \notin StopWords)

\* Raw term count of term in a token list.
RECURSIVE TermCount(_, _)
TermCount(tokens, term) ==
    IF tokens = <<>> THEN 0
    ELSE (IF Head(tokens) = term THEN 1 ELSE 0) + TermCount(Tail(tokens), term)

\* fit: the analyzed documents, in row order.
Fit(docs) == [i \in DOMAIN docs |-> Analyze(docs[i])]

\* The vocabulary learnt by fit: every term of every document.
Vocabulary(fitted) == UNION {Range(fitted[i]) : i \in DOMAIN fitted}

\* Document frequency of a term.
DocFreq(fitted, term) == Cardinality({i \in DOMAIN fitted : term \in Range(fitted[i])})

\* 10 * ln(k), rounded, for k = 1..8.
LnTenths == <<0, 7, 11, 14, 16, 18, 19, 21>>

\* smooth idf: ln((1 + n) / (1 + df)) + 1, in tenths.
Idf(fitted, term) == LnTenths[1 + Len(fitted)] - LnTenths[1 + DocFreq(fitted, term)] + 10

\* The tf-idf vector of a token list over the vocabulary (before normalisation).
TfidfVector(fitted, tokens) ==
    [t \in Vocabulary(fitted) |-> TermCount(tokens, t) * Idf(fitted, t)]

\* Dot product of two vectors over the same terms.
RECURSIVE DotOver(_, _, _)
DotOver(T, u, v) ==
    IF T = {} THEN 0
    ELSE LET t == CHOOSE x \in T : TRUE IN u[t] * v[t] + DotOver(T \ {t}, u, v)

Dot(u, v) == DotOver(DOMAIN u, u, v)

\* floor(sqrt(x)), by bisection on lo..hi
RECURSIVE ISqrtIn(_, _, _)
ISqrtIn(x, lo, hi) ==
    IF lo >= hi THEN lo
    ELSE LET mid == (lo + hi + 1) \div 2
         IN IF mid * mid <= x THEN ISqrtIn(x, mid, hi) ELSE ISqrtIn(x, lo, mid - 1)

ISqrt(x) == ISqrtIn(x, 0, 46340)

\* The terms a vector gives a nonzero weight.
Support(u) == { t \in DOMAIN u : u[t] # 0 }

\* A vector of exactly two nonzero weights, equal to each other.
TwoEqualWeights(u) ==
    /\ Cardinality(Support(u)) = 2
    /\ \A s, t \in Support(u) : u[s] = u[t]

\* cosine_similarity(u, v): both vectors are l2-normalised (a zero vector
\* stays zero) and the result is their dot product, all in float64.  A
\* vector of two equal weights w normalises to x = w / sqrt(w*w + w*w), the
\* float64 next above 1/sqrt(2), and normalising it again leaves it as it
\* is (its norm rounds to 1.0); the dot product of two such vectors is
\* x*x + x*x = 1.0000000000000002.  The other pairs of vectors the model
\* reaches are not parallel, and their cosine is rounded to an even number
\* of steps.
CosineSimilarity(u, v) ==
    LET dot == Dot(u, v)
        nu  == Dot(u, u)
        nv  == Dot(v, v)
    IN IF nu = 0 \/ nv = 0 THEN 0
       ELSE IF dot * dot = nu * nv /\ TwoEqualWeights(u) /\ TwoEqualWeights(v)
            THEN NextAfterOne
            ELSE 2 * (((Scale \div 2) * dot) \div ISqrt(nu * nv))

-----------------------------------------------------------------------------
(* check_user_availability                                                 *)

\* datetime.replace(tzinfo=None): the wall-clock fields stay, the zone goes.
ReplaceTzinfoNone(ts) == [ts EXCEPT !.tzinfo = "None"]

\* The overlap test with the boundaries included: touching slots conflict.
RECURSIVE check_user_availability_closed(_, _, _)
check_user_availability_closed(event_start, event_end, user_busy_slots) ==
    IF user_busy_slots = <<>> THEN TRUE
    ELSE LET busy    == Head(user_busy_slots)
             b_start == ReplaceTzinfoNone(busy.start)
             b_end   == ReplaceTzinfoNone(busy.end)
         IN IF (event_start <= b_end.wall) /\ (event_end >= b_start.wall)
            THEN FALSE
            ELSE check_user_availability_closed(event_start, event_end,
                                                Tail(user_busy_slots))

\* The loop over the busy slots, returning False at the first conflict.
RECURSIVE check_user_availability(_, _, _)
check_user_availability(event_start, event_end, user_busy_slots) ==
    IF user_busy_slots = <<>> THEN TRUE
    ELSE LET busy    == Head(user_busy_slots)
             b_start == ReplaceTzinfoNone(busy.start)
             b_end   == ReplaceTzinfoNone(busy.end)
         IN IF (event_start < b_end.wall) /\ (event_end > b_start.wall)
            THEN FALSE
            ELSE check_user_availability(event_start, event_end, Tail(user_busy_slots))

-----------------------------------------------------------------------------
(* find_best_slots_for_group                                               *)

\* dict.get(key, default)
DictGet(d, key, default) == IF key \in DOMAIN d THEN d[key] ELSE default

Space == <<" ">>
CommaSpace == <<",", " ">>
General == <<"G","e","n","e","r","a","l">>

\* The availability loop without the default of .get: a user the busy map
\* does not know is left out.
AttendeesKnownOnly(event, busy_map, selected) ==
    SelectSeq(selected,
              LAMBDA user : /\ user \in DOMAIN busy_map
                            /\ check_user_availability(event.Start, event.End,
                                                       busy_map[user]))

\* Step 1 of the loop body: who of the selected users is free, in list order.
Attendees(event, busy_map, selected) ==
    SelectSeq(selected,
              LAMBDA user : check_user_availability(event.Start, event.End,
                                                    DictGet(busy_map, user, <<>>)))

\* The searchable text of an event: category, description, title, lowercased.
EventText(event) == Lower(event.Category \o Space \o event.Description \o Space \o event.Title)

\* The preference keywords of one user that occur in the event text.
UserMatches(u_prefs, event_text) ==
    LET parts == SplitComma(u_prefs)
    IN { Strip(parts[i]) : i \in { j \in DOMAIN parts :
             Strip(parts[j]) # <<>> /\ Contains(event_text, Lower(Strip(parts[j]))) } }

\* The tags of everybody with a profile that occur in the event text,
\* attending or not.
MatchedTagsOfEverybody(attendees, prefs, event_text) ==
    UNION { UserMatches(prefs[u], event_text) : u \in DOMAIN prefs }

\* matched_tags after the loop over the attendees.
MatchedTags(attendees, prefs, event_text) ==
    UNION { UserMatches(DictGet(prefs, attendees[i], <<>>), event_text) : i \in DOMAIN attendees }

\* The counter raised once for every matching keyword instead of once for
\* every attendee with a match.
HappyTagCount(attendees, prefs, event_text) ==
    Cardinality(UNION { { <<i, t>> : t \in UserMatches(DictGet(prefs, attendees[i], <<>>),
                                                       event_text) }
                        : i \in DOMAIN attendees })

\* happy_user_count after the loop over the attendees.
HappyUserCount(attendees, prefs, event_text) ==
    Cardinality({ i \in DOMAIN attendees :
                    UserMatches(DictGet(prefs, attendees[i], <<>>), event_text) # {} })

\* A total order on strings, used to lay a set out in its iteration order.
CodeOf ==
    [c \in Letters |->
        IF \E i \in 1..26 : LowerCase[i] = c
        THEN CHOOSE i \in 1..26 : LowerCase[i] = c
        ELSE 26 + (CHOOSE i \in 1..26 : UpperCase[i] = c)]

CharCode(c) == IF c \in DOMAIN CodeOf THEN CodeOf[c] ELSE 0

RECURSIVE StrLess(_, _)
StrLess(a, b) ==
    IF b = <<>> THEN FALSE
    ELSE IF a = <<>> THEN TRUE
    ELSE IF CharCode(Head(a)) # CharCode(Head(b)) THEN CharCode(Head(a)) < CharCode(Head(b))
    ELSE StrLess(Tail(a), Tail(b))

\* Iteration order of a set of strings: it depends on the interpreter's hash seed.
RECURSIVE SetIteration(_, _)
SetIteration(S, seed) ==
    IF S = {} THEN <<>>
    ELSE LET first == IF seed = 0
                      THEN CHOOSE x \in S : \A y \in S \ {x} : StrLess(x, y)
                      ELSE CHOOSE x \in S : \A y \in S \ {x} : StrLess(y, x)
         IN <<first>> \o SetIteration(S \ {first}, seed)

\* The row appended to results for an event with enough attendees.
EventEntry(event, attendees, selected, prefs, seed) ==
    LET total_group_size == IF Len(selected) > 0 THEN Len(selected) ELSE 1
        event_text       == EventText(event)
        matched_tags     == MatchedTags(attendees, prefs, event_text)
        happy_user_count == HappyUserCount(attendees, prefs, event_text)
        prefs_list       == [i \in DOMAIN attendees |-> DictGet(prefs, attendees[i], <<>>)]
    IN [ idx                |-> event.idx,
         Title              |-> event.Title,
         Category           |-> event.Category,
         Description        |-> event.Description,
         Start              |-> event.Start,
         End                |-> event.End,
         attendees          |-> Join(CommaSpace, attendees),
         attendee_count     |-> Len(attendees),
         group_prefs_text   |-> Join(Space, prefs_list),
         matched_tags       |-> IF matched_tags # {}
                                THEN Join(CommaSpace, SetIteration(matched_tags, seed))
                                ELSE General,
         interest_score     |-> IF Len(attendees) > 0
                                THEN (Scale * happy_user_count) \div Len(attendees)
                                ELSE 0,
         availability_score |-> IF total_group_size > 0
                                THEN (Scale * Len(attendees)) \div total_group_size
                                ELSE 0 ]

\* The loop with the threshold exclusive: len(attendees) > min_attendees.
RECURSIVE ResultsAbove(_, _, _, _, _, _)
ResultsAbove(events, busy_map, selected, prefs, min_attendees, seed) ==
    IF events = <<>> THEN <<>>
    ELSE LET event     == Head(events)
             attendees == Attendees(event, busy_map, selected)
             rest      == ResultsAbove(Tail(events), busy_map, selected, prefs,
                                       min_attendees, seed)
         IN IF Len(attendees) > min_attendees
            THEN <<EventEntry(event, attendees, selected, prefs, seed)>> \o rest
            ELSE rest

\* The loop with the threshold as an exact size: len(attendees) == min_attendees.
RECURSIVE ResultsExactly(_, _, _, _, _, _)
ResultsExactly(events, busy_map, selected, prefs, min_attendees, seed) ==
    IF events = <<>> THEN <<>>
    ELSE LET event     == Head(events)
             attendees == Attendees(event, busy_map, selected)
             rest      == ResultsExactly(Tail(events), busy_map, selected, prefs,
                                         min_attendees, seed)
         IN IF Len(attendees) = min_attendees
            THEN <<EventEntry(event, attendees, selected, prefs, seed)>> \o rest
            ELSE rest

\* The loop without the threshold: every event is processed.
RECURSIVE ResultsUnfiltered(_, _, _, _, _, _)
ResultsUnfiltered(events, busy_map, selected, prefs, min_attendees, seed) ==
    IF events = <<>> THEN <<>>
    ELSE <<EventEntry(Head(events), Attendees(Head(events), busy_map, selected),
                      selected, prefs, seed)>>
         \o ResultsUnfiltered(Tail(events), busy_map, selected, prefs,
                              min_attendees, seed)

\* The loop over events_df.iterrows(): results, in table order.
RECURSIVE Results(_, _, _, _, _, _)
Results(events, busy_map, selected, prefs, min_attendees, seed) ==
    IF events = <<>> THEN <<>>
    ELSE LET event     == Head(events)
             attendees == Attendees(event, busy_map, selected)
             rest      == Results(Tail(events), busy_map, selected, prefs, min_attendees, seed)
         IN IF Len(attendees) >= min_attendees
            THEN <<EventEntry(event, attendees, selected, prefs, seed)>> \o rest
            ELSE rest

\* The entry is the row itself: what is written to the entry is written to
\* the row.
EventAliased(event, event_entry) == event_entry

\* event_entry = event.copy(): the columns written next are written to the
\* copy, and the row of events_df stays as it was.
EventAfterCopy(event, event_entry) == event

\* events_df after the loop over its rows.
EventsAfter(events, busy_map, selected, prefs, min_attendees, seed) ==
    [ k \in DOMAIN events |->
        LET attendees == Attendees(events[k], busy_map, selected)
        IN IF Len(attendees) >= min_attendees
           THEN EventAfterCopy(events[k],
                               EventEntry(events[k], attendees, selected, prefs, seed))
           ELSE events[k] ]

\* result_df['event_features']
EventFeatures(row) == row.Title \o Space \o row.Category \o Space \o row.Description

\* 1.0 as the score of a single-event batch without keyword hit
FullScore == Scale

\* 0.5, the neutral score of a single-event batch
NeutralScore == Scale \div 2

\* The exception the try block raises on a batch of two or more rows:
\* ValueError from fit_transform on an empty vocabulary, IndexError from
\* tfidf_matrix[idx] with an index label that is no row position, or none.
MlException(rows, fitted) ==
    IF Vocabulary(fitted) = {} THEN "ValueError"
    ELSE IF \E k \in DOMAIN rows :
               rows[k].interest_score = 0 /\ rows[k].idx >= Len(rows)
         THEN "IndexError"
         ELSE "None"

\* Whether the try block raises.
MlRaises(rows, fitted) == MlException(rows, fitted) # "None"

\* A handler for ValueError alone.
ExceptValueError(exc) == exc = "ValueError"

\* except Exception as e: the handler takes every exception the block raises.
ExceptException(exc) == exc \in {"ValueError", "IndexError"}

\* The exception that leaves find_best_slots_for_group for the frame rows,
\* "None" when the function returns.
Escaping(rows) ==
    IF Len(rows) >= 2
    THEN LET exc == MlException(rows, Fit([k \in DOMAIN rows |-> EventFeatures(rows[k])]))
         IN IF ExceptException(exc) THEN "None" ELSE exc
    ELSE "None"

\* The loop filling ml_scores with the similarity for every row.
RECURSIVE MlScoresAlways(_, _, _)
MlScoresAlways(rows, fitted, k) ==
    IF k > Len(rows) THEN <<>>
    ELSE <<IF rows[k].idx + 1 \in DOMAIN fitted
           THEN CosineSimilarity(
                    TfidfVector(fitted, Analyze(rows[k].group_prefs_text)),
                    TfidfVector(fitted, fitted[rows[k].idx + 1]))
           ELSE 0>>
         \o MlScoresAlways(rows, fitted, k + 1)

\* The loop filling ml_scores, from row k on.
RECURSIVE MlScores(_, _, _)
MlScores(rows, fitted, k) ==
    IF k > Len(rows) THEN <<>>
    ELSE <<IF rows[k].interest_score > 0
           THEN rows[k].interest_score
           ELSE CosineSimilarity(
                    TfidfVector(fitted, Analyze(rows[k].group_prefs_text)),
                    TfidfVector(fitted, fitted[rows[k].idx + 1]))>>
         \o MlScores(rows, fitted, k + 1)

\* A column holding the same value in every row.
Broadcast(rows, val) == [k \in DOMAIN rows |-> val]

\* The final_interest_score column with the similarity branch taken for a
\* batch of any size.
FinalInterestScoresAnySize(rows) ==
    LET fitted == Fit([k \in DOMAIN rows |-> EventFeatures(rows[k])])
    IN IF MlRaises(rows, fitted)
       THEN [k \in DOMAIN rows |-> rows[k].interest_score]
       ELSE MlScores(rows, fitted, 1)

\* The final_interest_score column.
FinalInterestScores(rows) ==
    IF Len(rows) >= 2
    THEN LET fitted == Fit([k \in DOMAIN rows |-> EventFeatures(rows[k])])
         IN IF MlRaises(rows, fitted)
            THEN [k \in DOMAIN rows |-> rows[k].interest_score]
            ELSE MlScores(rows, fitted, 1)
    ELSE LET val == rows[1].interest_score
         IN Broadcast(rows, IF val > 0 THEN val ELSE NeutralScore)

\* sort_values(by=['sort_score'], ascending=[False]): one row put in its place.
RECURSIVE InsertRow(_, _, _)
InsertRow(sorted, row, kind) ==
    IF sorted = <<>> THEN <<row>>
    ELSE IF \/ Head(sorted).sort_score > row.sort_score
            \/ (kind = "stable" /\ Head(sorted).sort_score = row.sort_score)
         THEN <<Head(sorted)>> \o InsertRow(Tail(sorted), row, kind)
         ELSE <<row>> \o sorted

RECURSIVE SortInto(_, _, _)
SortInto(sorted, rows, kind) ==
    IF rows = <<>> THEN sorted
    ELSE SortInto(InsertRow(sorted, Head(rows), kind), Tail(rows), kind)

\* No sort: the rows as they stand.
KeepOrder(rows, kind) == rows

SortValues(rows, kind) == SortInto(<<>>, rows, kind)

\* availability_score + final_interest_score in float64: the sum of 1.0 and
\* 1.0000000000000002 lies halfway between 2.0 and the next float64 and is
\* rounded to 2.0; every other sum the model reaches is exact.
FloatAdd(a, b) == IF a >= Scale /\ b = NextAfterOne THEN a + Scale ELSE a + b

\* result_df with the final_interest_score and sort_score columns added.
RECURSIVE WithScores(_, _)
WithScores(rows, final) ==
    IF rows = <<>> THEN <<>>
    ELSE <<Head(rows) @@ [ final_interest_score |-> Head(final),
                           sort_score |-> FloatAdd(Head(rows).availability_score,
                                                   Head(final)) ]>>
         \o WithScores(Tail(rows), Tail(final))

\* result_df as it stands before sort_values; empty when the function has
\* returned an empty DataFrame early.
ScoredFrame(events, busy_map, selected, prefs, min_attendees, seed) ==
    IF events = <<>> THEN <<>>
    ELSE LET results == Results(events, busy_map, selected, prefs, min_attendees, seed)
         IN IF results = <<>> THEN <<>>
            ELSE WithScores(results, FinalInterestScores(results))

\* The whole function, as run by a build whose quicksort orders equal keys
\* as kind says, in a process whose hash seed is seed.
find_best_slots_for_group(events, busy_map, selected, prefs, min_attendees, kind, seed) ==
    SortValues(ScoredFrame(events, busy_map, selected, prefs, min_attendees, seed), kind)

-----------------------------------------------------------------------------
(* load_local_events                                                       *)

\* A source file is a table: its header row and its data rows, each row the
\* tuple of its cells in header order.  A date is a day number, day 0 being
\* a Monday; a time of day is a tick, tick 0 being 00:00 and later ticks
\* later times; datetime.combine(date, time) is the pair of the two.

\* for i in range(30)
HorizonDays == 30

\* date.weekday() counts from Monday = 0 to Sunday = 6.
DaysPerWeek == 7

\* time(0, 0)
Midnight == 0

weekday_col     == <<"w","e","e","k","d","a","y">>
event_name_col  == <<"e","v","e","n","t","_","n","a","m","e">>
start_time_col  == <<"s","t","a","r","t","_","t","i","m","e">>
end_time_col    == <<"e","n","d","_","t","i","m","e">>
category_col    == <<"c","a","t","e","g","o","r","y">>
kategorie_col   == <<"k","a","t","e","g","o","r","i","e">>
location_col    == <<"l","o","c","a","t","i","o","n">>
description_col == <<"d","e","s","c","r","i","p","t","i","o","n">>
Start_col       == <<"S","t","a","r","t">>
End_col         == <<"E","n","d">>

\* A cell pandas read as float nan, and Python's None: one-symbol values
\* that no text equals.
NaN  == <<"nan">>
None == <<"None">>

\* str(value) of a text cell
Str(v) == IF v = NaN THEN <<"n","a","n">> ELSE IF v = None THEN <<"N","o","n","e">> ELSE v

\* df.columns = [str(c).lower().strip() for c in df.columns]
NormalizeColumns(columns) == [i \in DOMAIN columns |-> Strip(Lower(columns[i]))]

\* name in df.columns / name in row
HasColumn(columns, name) == \E i \in DOMAIN columns : columns[i] = name

\* row[name]
Cell(columns, row, name) == row[CHOOSE i \in DOMAIN columns : columns[i] = name]

\* row.get(name, default)
CellOr(columns, row, name, default) ==
    IF HasColumn(columns, name) THEN Cell(columns, row, name) ELSE default

\* current_date.weekday()
Weekday(date) == date % DaysPerWeek

\* datetime.combine(date, time)
Combine(date, t) == [date |-> date, time |-> t]

\* isinstance(value, time)
IsInstanceTime(v) == v.kind = "time"

\* pd.to_datetime(str(value)).time() raises for text that is no time and for
\* an empty cell (NaT has no time of day).
ToDatetimeRaises(v) == v.kind \notin {"time", "text"}

\* The time of day a time object holds or a text spells.
TimeOf(v) == v.tick

\* The row is skipped by the except of its try: a time column that is not
\* there, or a start time that cannot be read.
RowRaises(columns, row) ==
    \/ ~HasColumn(columns, start_time_col)
    \/ ~HasColumn(columns, end_time_col)
    \/ LET s_val == Cell(columns, row, start_time_col)
       IN ~IsInstanceTime(s_val) /\ ToDatetimeRaises(s_val)

\* The end time of day of a row: 00:00 when it cannot be read.
EndTime(e_val) ==
    IF IsInstanceTime(e_val) THEN TimeOf(e_val)
    ELSE IF ToDatetimeRaises(e_val) THEN Midnight ELSE TimeOf(e_val)

\* Every end on the day of the start.
EndDtSameDay(current_date, s_time, e_time) == Combine(current_date, e_time)

\* The overnight rule with the equal case left on the same day.
EndDtStrict(current_date, s_time, e_time) ==
    IF e_time < s_time /\ e_time # Midnight THEN Combine(current_date + 1, e_time)
    ELSE IF e_time = Midnight THEN Combine(current_date + 1, e_time)
    ELSE Combine(current_date, e_time)

\* The overnight rule: end_dt of an occurrence on current_date.
EndDt(current_date, s_time, e_time) ==
    IF e_time <= s_time /\ e_time # Midnight THEN Combine(current_date + 1, e_time)
    ELSE IF e_time = Midnight THEN Combine(current_date + 1, e_time)
    ELSE Combine(current_date, e_time)

\* The body of the row loop: the occurrences one row adds on current_date.
RowEvents(columns, row, current_date) ==
    IF RowRaises(columns, row) THEN <<>>
    ELSE LET s_time == TimeOf(Cell(columns, row, start_time_col))
             e_time == EndTime(Cell(columns, row, end_time_col))
             cat    == IF HasColumn(columns, category_col)
                       THEN Cell(columns, row, category_col)
                       ELSE IF HasColumn(columns, kategorie_col)
                            THEN Cell(columns, row, kategorie_col)
                            ELSE General
         IN << [ Title       |-> Cell(columns, row, event_name_col),
                 Start       |-> Combine(current_date, s_time),
                 End         |-> EndDt(current_date, s_time, e_time),
                 Category    |-> cat,
                 Description |-> Str(CellOr(columns, row, description_col, <<>>)),
                 location    |-> CellOr(columns, row, location_col, None) ] >>

\* Every row counts on every day, whatever its weekday.
DaysEventsEveryRow(columns, rows, current_date) ==
    LET RECURSIVE From(_)
        From(k) ==
            IF k > Len(rows) THEN <<>>
            ELSE RowEvents(columns, rows[k], current_date) \o From(k + 1)
    IN From(1)

\* days_events and its loop: the rows of the weekday of current_date, in
\* table order.
DaysEvents(columns, rows, current_date) ==
    LET RECURSIVE From(_)
        From(k) ==
            IF k > Len(rows) THEN <<>>
            ELSE ( IF Cell(columns, rows[k], weekday_col) = Weekday(current_date)
                   THEN RowEvents(columns, rows[k], current_date)
                   ELSE <<>> ) \o From(k + 1)
    IN From(1)

\* generated_events after the loop over the days today .. today + 29
GeneratedEvents(columns, rows, today) ==
    LET RECURSIVE From(_)
        From(i) ==
            IF i >= HorizonDays THEN <<>>
            ELSE DaysEvents(columns, rows, today + i) \o From(i + 1)
    IN From(0)

\* pd.to_datetime(column) raises when a cell is no timestamp.
ColumnRaises(columns, rows, name) ==
    HasColumn(columns, name)
    /\ \E k \in DOMAIN rows : Cell(columns, rows[k], name).kind = "junk"

\* pd.to_datetime(value) followed by .dt.tz_localize(None)
TzLocalizeNone(v) == [kind |-> "timestamp", wall |-> v.wall, tzinfo |-> "None"]

\* The fixed-date table returned: the columns renamed, 'Start' and 'End'
\* made naive timestamps where the renamed table has columns of these names.
FixedRow(columns, row) ==
    [ i \in DOMAIN columns |->
        IF columns[i] \in {Start_col, End_col} THEN TzLocalizeNone(row[i]) ELSE row[i] ]

\* The suffixes that send a path to pd.read_excel; every other path goes to
\* pd.read_csv.
ExcelSuffixes == {"xlsx", "xls"}

\* pd.read_excel / pd.read_csv raises: the file is missing, or it is not
\* what the reader reads.  read_excel reads workbooks only; read_csv reads
\* any text, each line a row and the first the header, and fails on the
\* bytes of a workbook or of any other binary file.
ReadRaises(file) ==
    IF file.suffix \in ExcelSuffixes
    THEN file.content # "workbook"
    ELSE file.content \notin {"csv", "text"}

\* What load_local_events returns for a file read on the day today: the
\* branch taken, the columns and the rows of the table returned.  A weekly
\* table holds occurrences; any other table holds rows as tuples of cells.
load_local_events(file, today) ==
    IF ReadRaises(file)
    THEN [branch |-> "except", columns |-> <<>>, rows |-> <<>>]
    ELSE LET columns == NormalizeColumns(file.columns)
         IN IF HasColumn(columns, weekday_col) /\ HasColumn(columns, event_name_col)
            THEN [ branch  |-> "weekly",
                   columns |-> <<>>,
                   rows    |-> GeneratedEvents(columns, file.rows, today) ]
            ELSE IF \/ ColumnRaises(columns, file.rows, Start_col)
                    \/ ColumnRaises(columns, file.rows, End_col)
                 THEN [branch |-> "except", columns |-> <<>>, rows |-> <<>>]
                 ELSE [ branch  |-> "fixed",
                        columns |-> columns,
                        rows    |-> [k \in DOMAIN file.rows |-> FixedRow(columns, file.rows[k])] ]

-----------------------------------------------------------------------------
(* Inputs                                                                  *)

Alice == <<"A","l","i","c","e">>
Bob   == <<"B","o","b">>

Users == {Alice, Bob}

Soccer == <<"S","o","c","c","e","r">>
Sport  == <<"S","p","o","r","t">>
Class  == <<"C","l","a","s","s">>
Yoga   == <<"Y","o","g","a">>
It     == <<"I","t">>

\* The activities on offer: one occurrence each, one tick long.
Activities ==
    { [Title |-> Soccer, Category |-> Sport, Description |-> <<>>, Start |-> 0, End |-> 1],
      [Title |-> Soccer, Category |-> Sport, Description |-> <<>>, Start |-> 1, End |-> 2],
      [Title |-> Class,  Category |-> Yoga,  Description |-> <<>>, Start |-> 1, End |-> 2],
      [Title |-> It,     Category |-> <<>>,  Description |-> <<>>, Start |-> 0, End |-> 1] }

\* Preference strings as stored in a profile.
PrefStrings ==
    { <<>>,
      Sport \o CommaSpace \o Soccer,
      Yoga \o Space \o Class }

Times == 0..MaxTime

\* Time windows, start < end.
Windows == { w \in Times \X Times : w[1] < w[2] }

Naive(t) == [wall |-> t, tzinfo |-> "None"]

\* Busy slots as fetch_and_map_events stores them.
BusySlots == { [start |-> Naive(w[1]), end |-> Naive(w[2])] : w \in Windows }

BusyLists == UNION { [1..n -> BusySlots] : n \in 0..MaxBusy }

\* Either the calendar is not connected ({}), or every user has a list.
BusyMaps == { << >> } \cup [Users -> BusyLists]

\* The multiselect: distinct names in some order.
Selections ==
    { sel \in UNION { [1..n -> Users] : n \in 0..Cardinality(Users) } :
        \A i, j \in DOMAIN sel : i # j => sel[i] # sel[j] }

\* The week filter keeps each row under the label it had in the full table;
\* here the kept rows are consecutive and the first is row 0 or row 1.
FirstLabels == {0, 1}

EventTables ==
    UNION { { [k \in 1..n |-> [idx |-> first + k - 1] @@ act[k]] :
                first \in (IF n = 0 THEN {0} ELSE FirstLabels),
                act \in [1..n -> Activities] } : n \in 0..MaxEvents }

\* Profiles: preference strings by name.  The engine treats names alike, so
\* only one of each pair of maps that differ by exchanging the names is kept.
PrefMaps == { p \in [Users -> PrefStrings] : Len(p[Alice]) <= Len(p[Bob]) }

\* numpy's quicksort keeps equal keys in table order when it falls back to
\* insertion sort and does not when it sorts with a vector network.
SortKinds == {"stable", "unstable"}

\* The interpreter draws a string hash seed when it starts.
HashSeeds == {0, 1}

MinAttendees == 0..Cardinality(Users)

NoRun == [min_attendees |-> -1, sort_kind |-> "none", hash_seed |-> -1,
          raised |-> "None", result |-> <<>>]
NoCheck == [event_start |-> -1, event_end |-> -1, user_busy_slots |-> <<>>,
            returned |-> FALSE, free |-> FALSE]
NoLoad == [file |-> [suffix |-> "csv", content |-> "missing", columns |-> <<>>, rows |-> <<>>],
           today |-> -1,
           returned |-> FALSE, branch |-> "none", columns |-> <<>>, rows |-> <<>>]

\* No call of a database function yet.
NoCall == [op |-> "none", args |-> <<>>, returned |-> <<>>, count |-> 0]

\* A session before its first script run.
NoSession == [ has_credentials_key |-> FALSE, credentials |-> "None", code |-> "None",
               config |-> "none", try_again |-> FALSE,
               returned |-> "nothing yet", fetch |-> "none", shown |-> "none", runs |-> 0 ]

\* The database as init_db leaves a new file, and a session not yet begun.
StoreIdle ==
    /\ users = <<>>
    /\ saved_events = <<>>
    /\ db_call = NoCall
    /\ session = NoSession

\* No planning request, availability check or load is under way.
PlannerIdle ==
    /\ events_df = <<>>
    /\ user_busy_map = << >>
    /\ selected_users = <<>>
    /\ all_user_prefs = << >>
    /\ prev_run = NoRun
    /\ last_run = NoRun
    /\ availability = NoCheck
    /\ local_events = NoLoad

Init ==
    /\ events_df \in EventTables
    /\ user_busy_map \in BusyMaps
    /\ selected_users \in Selections
    /\ all_user_prefs \in PrefMaps
    /\ prev_run = NoRun
    /\ last_run = NoRun
    /\ StoreIdle
    /\ availability = NoCheck
    /\ local_events = NoLoad

\* The outcome of one call: the exception that left it, or the sorted frame.
RunOf(scored, exc, m, k, s) ==
    [ min_attendees |-> m, sort_kind |-> k, hash_seed |-> s, raised |-> exc,
      result |-> IF exc = "None" THEN SortValues(scored, k) ELSE <<>> ]

\* What one planning request with threshold m can return: the table before
\* the sort depends on the hash seed of the process, its order on the build.
RunsServed(m) ==
    UNION { LET scored == ScoredFrame(events_df, user_busy_map, selected_users,
                                      all_user_prefs, m, s)
                exc    == Escaping(scored)
            IN { RunOf(scored, exc, m, k, s) : k \in SortKinds }
          : s \in HashSeeds }

\* A planning request: show_activity_planner calls find_best_slots_for_group
\* and keeps what it returns.
Rank(m) ==
    /\ last_run = NoRun
    /\ last_run' \in RunsServed(m)
    /\ events_df' = EventsAfter(events_df, user_busy_map, selected_users,
                                all_user_prefs, m, last_run'.hash_seed)
    /\ UNCHANGED <<user_busy_map, selected_users, all_user_prefs,
                   prev_run, availability, local_events, store_vars>>

Next == \E m \in MinAttendees : Rank(m)

Spec == Init /\ [][Next]_vars

-----------------------------------------------------------------------------
(* Two planning requests on the same inputs                                *)

\* Tables of two occurrences labelled 0 and 1.
PairTables == { t \in EventTables : Len(t) = 2 /\ t[1].idx = 0 }

PairSelections == { <<Alice, Bob>>, <<Bob>> }

\* Profiles in which somebody names more than one keyword.
PairPrefMaps == { p \in PrefMaps : p[Bob] = Sport \o CommaSpace \o Soccer }

InitPair ==
    /\ events_df \in PairTables
    /\ user_busy_map \in BusyMaps
    /\ selected_users \in PairSelections
    /\ all_user_prefs \in PairPrefMaps
    /\ prev_run = NoRun
    /\ last_run = NoRun
    /\ StoreIdle
    /\ availability = NoCheck
    /\ local_events = NoLoad

\* A second planning request on the same inputs, with threshold m.  The
\* build, and with it the order the sort gives equal keys, is the one of the
\* first request; the server may have been restarted in between, so the
\* hash seed is drawn again.
Rerank(m) ==
    /\ last_run # NoRun
    /\ prev_run = NoRun
    /\ prev_run' = last_run
    /\ last_run' \in
         { LET scored == ScoredFrame(events_df, user_busy_map, selected_users,
                                     all_user_prefs, m, s)
           IN RunOf(scored, Escaping(scored), m, last_run.sort_kind, s)
           : s \in HashSeeds }
    /\ events_df' = EventsAfter(events_df, user_busy_map, selected_users,
                                all_user_prefs, m, last_run'.hash_seed)
    /\ UNCHANGED <<user_busy_map, selected_users, all_user_prefs,
                   availability, local_events, store_vars>>

NextPair ==
    \/ \E m \in MinAttendees : Rank(m)
    \/ \E m \in MinAttendees : Rerank(m)

SpecPair == InitPair /\ [][NextPair]_vars

-----------------------------------------------------------------------------
(* Planning requests over events of the default category                   *)

Picnic == <<"P","i","c","n","i","c">>

\* An event of a source without category column gets the category
\* "General" from load_local_events.
TagActivities ==
    { [Title |-> Soccer, Category |-> Sport,   Description |-> <<>>, Start |-> 0, End |-> 1],
      [Title |-> Picnic, Category |-> General, Description |-> <<>>, Start |-> 0, End |-> 1] }

TagTables ==
    UNION { { [k \in 1..n |-> [idx |-> k - 1] @@ act[k]] : act \in [1..n -> TagActivities] }
            : n \in 1..MaxEvents }

TagPrefStrings == { <<>>, General, Sport \o CommaSpace \o Soccer }

InitTags ==
    /\ events_df \in TagTables
    /\ user_busy_map \in BusyMaps
    /\ selected_users \in Selections
    /\ all_user_prefs \in [Users -> TagPrefStrings]
    /\ prev_run = NoRun
    /\ last_run = NoRun
    /\ StoreIdle
    /\ availability = NoCheck
    /\ local_events = NoLoad

SpecTags == InitTags /\ [][Next]_vars

-----------------------------------------------------------------------------
(* Planning requests over one soccer occurrence                            *)

\* One occurrence "Soccer" of category "Sport", in any window.
SoccerTables ==
    { << [idx |-> 0, Title |-> Soccer, Category |-> Sport, Description |-> <<>>,
          Start |-> w[1], End |-> w[2]] >> : w \in Windows }

SoccerPrefStrings == { <<>>, Sport }

InitSoccer ==
    /\ events_df \in SoccerTables
    /\ user_busy_map \in BusyMaps
    /\ selected_users \in Selections
    /\ all_user_prefs \in [Users -> SoccerPrefStrings]
    /\ prev_run = NoRun
    /\ last_run = NoRun
    /\ StoreIdle
    /\ availability = NoCheck
    /\ local_events = NoLoad

SpecSoccer == InitSoccer /\ [][Next]_vars

-----------------------------------------------------------------------------
(* check_user_availability on its own                                      *)

\* Time zones of the timestamps Google returns: none (all-day) or an offset.
TzInfos == {"None", "+01:00"}

\* Busy slots of any zone; a timed calendar entry may have no duration.
AnyBusySlots ==
    { [start |-> [wall |-> a, tzinfo |-> z], end |-> [wall |-> b, tzinfo |-> z]] :
        a \in Times, b \in Times, z \in TzInfos } \ 
    { slot \in [start : [wall : Times, tzinfo : TzInfos], end : [wall : Times, tzinfo : TzInfos]] :
        slot.start.wall > slot.end.wall }

AnyBusyLists == UNION { [1..n -> AnyBusySlots] : n \in 0..(MaxBusy + 1) }

InitAvail ==
    /\ events_df = <<>>
    /\ user_busy_map = << >>
    /\ selected_users = <<>>
    /\ all_user_prefs = [u \in Users |-> <<>>]
    /\ prev_run = NoRun
    /\ last_run = NoRun
    /\ StoreIdle
    /\ local_events = NoLoad
    /\ \E w \in Windows, slots \in AnyBusyLists :
         availability = [ event_start |-> w[1], event_end |-> w[2],
                          user_busy_slots |-> slots, returned |-> FALSE, free |-> FALSE ]

\* The call returns.
CheckAvailability ==
    /\ ~availability.returned
    /\ availability' =
         [availability EXCEPT
            !.returned = TRUE,
            !.free = check_user_availability(availability.event_start,
                                             availability.event_end,
                                             availability.user_busy_slots)]
    /\ UNCHANGED <<events_df, user_busy_map, selected_users, all_user_prefs,
                   prev_run, last_run, local_events, store_vars>>

NextAvail == CheckAvailability

SpecAvail == InitAvail /\ [][NextAvail]_vars

-----------------------------------------------------------------------------
(* load_local_events on a weekly-recurrence file                           *)

MaxTick == 3
MaxRows == 2

\* Times of day: 00:00 and MaxTick later ones.
Ticks == Midnight..MaxTick

TimeObject(t) == [kind |-> "time", tick |-> t]

\* A time cell: a time object (Excel), a text that spells a time (CSV), an
\* empty cell, a text that spells none.
TimeCells ==
    { TimeObject(t) : t \in Ticks }
    \cup { [kind |-> "text", tick |-> t] : t \in Ticks }
    \cup { [kind |-> k, tick |-> -1] : k \in {"nan", "junk"} }

\* Monday, Wednesday, Sunday, and a number that is no weekday.
WeekdayCells == {0, 2, DaysPerWeek - 1, DaysPerWeek}

\* datetime.now().date(): any day of a week
Todays == 0..(DaysPerWeek - 1)

PlainHeader == <<weekday_col, event_name_col, start_time_col, end_time_col>>

\* A header as a spreadsheet has it, with a category column.
SheetHeader == << <<" ","W","e","e","k","d","a","y">>, <<"E","v","e","n","t","_","N","a","m","e"," ">>, <<"S","T","A","R","T","_","T","I","M","E">>, end_time_col, <<"C","a","t","e","g","o","r","y">> >>

FirstRows == { <<w, Soccer, s, e>> : w \in WeekdayCells, s \in TimeCells, e \in TimeCells }

\* The rows after the first: a class from the first tick to the second.
OtherRows == { <<w, Class, TimeObject(1), TimeObject(2)>> : w \in WeekdayCells }

WeeklyRows ==
    UNION { { <<first>> \o rest : first \in FirstRows, rest \in [1..(n - 1) -> OtherRows] }
            : n \in 1..MaxRows }

WeeklyFiles ==
    { [suffix |-> "csv", content |-> "csv", columns |-> PlainHeader, rows |-> rows] :
        rows \in WeeklyRows }
    \cup { [ suffix |-> "xlsx", content |-> "workbook", columns |-> SheetHeader,
             rows |-> [k \in DOMAIN rows |-> Append(rows[k], Sport)] ] : rows \in WeeklyRows }

InitWeekly ==
    /\ events_df = <<>>
    /\ user_busy_map = << >>
    /\ selected_users = <<>>
    /\ all_user_prefs = [u \in Users |-> <<>>]
    /\ prev_run = NoRun
    /\ last_run = NoRun
    /\ StoreIdle
    /\ availability = NoCheck
    /\ \E file \in WeeklyFiles, today \in Todays :
         local_events = [NoLoad EXCEPT !.file = file, !.today = today]

\* The call returns.
LoadLocalEvents ==
    /\ ~local_events.returned
    /\ LET df == load_local_events(local_events.file, local_events.today)
       IN local_events' = [local_events EXCEPT !.returned = TRUE,
                                               !.branch = df.branch,
                                               !.columns = df.columns,
                                               !.rows = df.rows]
    /\ UNCHANGED <<events_df, user_busy_map, selected_users, all_user_prefs,
                   prev_run, last_run, availability, store_vars>>

NextWeekly == LoadLocalEvents

SpecWeekly == InitWeekly /\ [][NextWeekly]_vars

-----------------------------------------------------------------------------
(* load_local_events on any file                                           *)

\* The suffix of file_path: the two the planner asks for, the older Excel
\* one, and one of no table format.
Suffixes == {"csv", "xlsx", "xls", "txt"}

\* A Start or End cell of a fixed-date table: a text that spells an instant
\* (CSV) or a timestamp (Excel), with or without a zone, or a text that
\* spells none.
InstantCells(wall) ==
    { [kind |-> "text", wall |-> wall, tzinfo |-> "+01:00"],
      [kind |-> "timestamp", wall |-> wall, tzinfo |-> "None"],
      [kind |-> "junk", wall |-> -1, tzinfo |-> "None"] }

\* Headers of a fixed-date table, as documented and in lower case.
FixedHeaders ==
    { << <<"T","i","t","l","e">>, Start_col, End_col >>, << <<"t","i","t","l","e">>, <<"s","t","a","r","t">>, <<"e","n","d">> >> }

\* One occurrence "Soccer" over the first window.
FixedRows == { << <<Soccer, s, e>> >> : s \in InstantCells(0), e \in InstantCells(1) }

\* The tables a workbook or a CSV file holds: fixed-date ones and weekly ones.
Tables ==
    { [columns |-> h, rows |-> r] : h \in FixedHeaders, r \in FixedRows }
    \cup { [columns |-> PlainHeader, rows |-> <<r>>] : r \in OtherRows }

\* What read_csv makes of a text that is no table: the first line is the
\* header, every further line a row of one cell.
TextTables ==
    { [columns |-> << <<"n","o","t","e","s">> >>, rows |-> <<>>],
      [columns |-> << <<"n","o","t","e","s">> >>, rows |-> << << <<"b","u","y"," ","m","i","l","k">> >> >>] }

Contents ==
    { [content |-> c, columns |-> t.columns, rows |-> t.rows] :
        c \in {"csv", "workbook"}, t \in Tables }
    \cup { [content |-> "text", columns |-> t.columns, rows |-> t.rows] : t \in TextTables }
    \cup { [content |-> c, columns |-> <<>>, rows |-> <<>>] : c \in {"missing", "binary"} }

LocalFiles == { [suffix |-> x] @@ c : x \in Suffixes, c \in Contents }

InitFiles ==
    /\ events_df = <<>>
    /\ user_busy_map = << >>
    /\ selected_users = <<>>
    /\ all_user_prefs = [u \in Users |-> <<>>]
    /\ prev_run = NoRun
    /\ last_run = NoRun
    /\ StoreIdle
    /\ availability = NoCheck
    /\ \E file \in LocalFiles, today \in Todays :
         local_events = [NoLoad EXCEPT !.file = file, !.today = today]

SpecFiles == InitFiles /\ [][NextWeekly]_vars

-----------------------------------------------------------------------------
(* load_local_events on weekly files with and without a location column    *)

Gym == <<"G","y","m">>

\* A location cell: a text or an empty cell.
LocationCells == {Gym, NaN}

LocationFiles ==
    { [suffix |-> "csv", content |-> "csv", columns |-> PlainHeader, rows |-> <<r>>] :
        r \in OtherRows }
    \cup { [ suffix |-> "csv", content |-> "csv",
             columns |-> Append(PlainHeader, location_col),
             rows |-> << Append(r, loc) >> ] : r \in OtherRows, loc \in LocationCells }

InitLocation ==
    /\ events_df = <<>>
    /\ user_busy_map = << >>
    /\ selected_users = <<>>
    /\ all_user_prefs = [u \in Users |-> <<>>]
    /\ prev_run = NoRun
    /\ last_run = NoRun
    /\ StoreIdle
    /\ availability = NoCheck
    /\ \E file \in LocationFiles, today \in Todays :
         local_events = [NoLoad EXCEPT !.file = file, !.today = today]

SpecLocation == InitLocation /\ [][NextWeekly]_vars

-----------------------------------------------------------------------------
(* database.py: add_user                                                   *)

\* A table is the sequence of its rows in insertion order; no call deletes a
\* user, so the AUTOINCREMENT id of the next row is the number of rows + 1.

MaxCalls == 3

Comma == <<",">>

\* prefs_str: a list is joined with commas, anything else is stored as it is.
PrefsStr(preferences) ==
    IF preferences.kind = "list" THEN Join(Comma, preferences.value) ELSE preferences.value

\* email and email.strip() != ""
EmailGiven(email) == email # None /\ email # <<>> /\ Strip(email) # <<>>

\* SELECT id FROM users WHERE email = ? finds nothing, whatever the table.
ExistingNever(table, email) == {}

\* SELECT id FROM users WHERE email = ?
Existing(table, email) == { k \in DOMAIN table : table[k].email = email }

\* f"no_email_{uuid.uuid4()}@local", for the n-th uuid drawn
DummyEmail(n) == <<"n","o","_","e","m","a","i","l","_">> \o <<ToString(n)>> \o <<"@","l","o","c","a","l">>

\* An INSERT INTO users fails: name is NOT NULL, email is UNIQUE.
InsertUserRaises(table, name, email) ==
    name = None \/ \E k \in DOMAIN table : table[k].email = email

\* INSERT INTO users (name, email, preferences)
InsertUser(table, name, email, prefs_str) ==
    Append(table, [id |-> Len(table) + 1, name |-> name, email |-> email,
                   preferences |-> prefs_str])

\* UPDATE users SET name = ?, preferences = ? WHERE email = ?
UpdateUser(table, name, prefs_str, email) ==
    [ k \in DOMAIN table |->
        IF table[k].email = email
        THEN [table[k] EXCEPT !.name = name, !.preferences = prefs_str]
        ELSE table[k] ]

\* add_user: the table after the call and the pair returned; uuid is the
\* number of the uuid the call draws when it needs one.
add_user(table, name, email, preferences, uuid) ==
    LET prefs_str == PrefsStr(preferences)
        failed    == [users |-> table,
                      returned |-> <<FALSE, "UNIQUE constraint failed: users.email">>]
    IN IF EmailGiven(email)
       THEN IF Existing(table, email) # {}
            THEN [ users |-> UpdateUser(table, name, prefs_str, email),
                   returned |-> <<TRUE, "updated">> ]
            ELSE IF InsertUserRaises(table, name, email) THEN failed
                 ELSE [ users |-> InsertUser(table, name, email, prefs_str),
                        returned |-> <<TRUE, "created">> ]
       ELSE IF InsertUserRaises(table, name, DummyEmail(uuid)) THEN failed
            ELSE [ users |-> InsertUser(table, name, DummyEmail(uuid), prefs_str),
                   returned |-> <<TRUE, "created_no_email">> ]

\* SELECT name, preferences FROM users
get_all_users(table) == [k \in DOMAIN table |-> <<table[k].name, table[k].preferences>>]

\* user_prefs_dict = {u[0]: u[1] for u in all_users_data}: a later row of a
\* name replaces an earlier one.
UserPrefsDict(all_users_data) ==
    [ name \in { all_users_data[k][1] : k \in DOMAIN all_users_data } |->
        LET last == CHOOSE k \in DOMAIN all_users_data :
                        /\ all_users_data[k][1] = name
                        /\ \A j \in DOMAIN all_users_data :
                               all_users_data[j][1] = name => j <= k
        IN all_users_data[last][2] ]

Music == <<"M","u","s","i","c">>

\* The names, emails and interests the profile form sends, and the emails and
\* the preference string a direct caller may pass.
ProfileNames == {Alice, Bob}

ProfileEmails == { <<>>, <<" ">>, None, <<"a","@","x">>, <<"b","@","x">> }

ProfilePreferences ==
    { [kind |-> "list", value |-> <<>>],
      [kind |-> "list", value |-> <<Sport, Music>>],
      [kind |-> "str", value |-> Sport] }

InitUsers == PlannerIdle /\ StoreIdle

AddUser ==
    /\ db_call.count < MaxCalls
    /\ \E name \in ProfileNames, email \in ProfileEmails, preferences \in ProfilePreferences :
         LET done == add_user(users, name, email, preferences, db_call.count + 1)
         IN /\ users' = done.users
            /\ db_call' = [ op |-> "add_user", args |-> <<name, email, preferences>>,
                            returned |-> done.returned, count |-> db_call.count + 1 ]
    /\ UNCHANGED <<planner_vars, saved_events, session>>

NextUsers == AddUser

SpecUsers == InitUsers /\ [][NextUsers]_vars

-----------------------------------------------------------------------------
(* database.py: add_saved_event                                            *)

\* The duplicate check by title alone.
SavedAlreadyByTitle(table, title, start) ==
    \E k \in DOMAIN table : table[k].title = title

\* SELECT id FROM saved_events WHERE title = ? AND start_time = ? finds a row.
SavedAlready(table, title, start) ==
    \E k \in DOMAIN table : table[k].title = title /\ table[k].start_time = start

\* add_saved_event: the table after the call and the value returned.
add_saved_event(table, title, start, end, color, category, attendees, match_score, location) ==
    IF SavedAlready(table, title, start)
    THEN [saved_events |-> table, returned |-> FALSE]
    ELSE [ saved_events |->
             Append(table, [ id |-> Len(table) + 1, title |-> title, start_time |-> start,
                             end_time |-> end, color |-> color, category |-> category,
                             attendees |-> attendees, match_score |-> match_score,
                             location |-> location ]),
           returned |-> TRUE ]

\* The card colours of a perfect and of a good match.
Colors == {"#FFD700", "#28a745"}

\* What save_to_db_callback passes for a ranked row: title, start and end
\* text (here the tick each spells), colour, category, attendees, score and
\* location.
SavedArgs ==
    { <<title, w[1], w[2], color, Sport, Alice, Scale, Gym>> :
        title \in {Soccer, Class}, w \in Windows, color \in Colors }

InitSaved == PlannerIdle /\ StoreIdle

AddSavedEvent ==
    /\ db_call.count < MaxCalls
    /\ \E a \in SavedArgs :
         LET done == add_saved_event(saved_events, a[1], a[2], a[3], a[4], a[5], a[6],
                                     a[7], a[8])
         IN /\ saved_events' = done.saved_events
            /\ db_call' = [ op |-> "add_saved_event", args |-> a,
                            returned |-> done.returned, count |-> db_call.count + 1 ]
    /\ UNCHANGED <<planner_vars, users, session>>

NextSaved == AddSavedEvent

SpecSaved == InitSaved /\ [][NextSaved]_vars

-----------------------------------------------------------------------------
(* auth.py: get_google_service                                             *)

\* A session is one browser tab: st.session_state (whether it has the key
\* "credentials" and what the key holds), the "code" query parameter of the
\* page URL, the OAuth client configuration the deployment has, whether the
\* "Try again" button was pressed for the coming run, and of the last call:
\* what it returned ("service", "url", "None", or "no return" when
\* st.rerun() ended the run), how flow.fetch_token went and what message it
\* showed.

MaxRuns == 5

\* The credentials are stored whether the exchange went through or not.
CredentialsAlways(credentials, fetched) == "Credentials"

\* st.session_state.credentials after flow.fetch_token: the assignment is
\* reached only when fetch_token did not raise.
CredentialsAfterFetch(credentials, fetched) ==
    IF fetched THEN "Credentials" ELSE credentials

\* The end of a call: the value returned and the trace of the call; the
\* button press, if any, is used up by the run.
Ended(s, returned, fetch, shown) ==
    [s EXCEPT !.returned = returned, !.fetch = fetch, !.shown = shown,
              !.try_again = FALSE, !.runs = s.runs + 1]

\* One call of get_google_service in session s; fetched says whether
\* flow.fetch_token goes through, if the call gets to it.
get_google_service(s, fetched) ==
    LET s1 == [s EXCEPT !.has_credentials_key = TRUE,
                        !.credentials = IF s.has_credentials_key THEN s.credentials
                                        ELSE "None"]
    IN IF s1.credentials # "None" THEN Ended(s1, "service", "none", "none")
       ELSE IF s1.config \in {"secrets without keys", "unreadable file"}
            THEN Ended(s1, "None", "none", "Error")
       ELSE IF s1.config = "none"
            THEN Ended(s1, "None", "none", "No configuration found")
       ELSE IF s1.code # "None"
            THEN IF fetched
                 THEN Ended([s1 EXCEPT !.credentials = CredentialsAfterFetch(s1.credentials, TRUE),
                                       !.code = "None"],
                            "no return", "done", "none")
                 ELSE LET s2 == [s1 EXCEPT !.credentials =
                                              CredentialsAfterFetch(s1.credentials, FALSE)]
                      IN IF s1.try_again
                         THEN Ended([s2 EXCEPT !.code = "None"],
                                    "no return", "failed", "Login failed")
                         ELSE Ended(s2, "None", "failed", "Login failed")
            ELSE Ended(s1, "url", "none", "none")

\* Where the client configuration comes from and whether it can be read.
Configs == {"secrets", "secrets without keys", "file", "unreadable file", "none"}

\* The code Google appends to the redirect: one it will exchange, one it
\* will not (used, expired, forged).
Codes == {"good", "bad"}

InitSession ==
    /\ PlannerIdle
    /\ users = <<>>
    /\ saved_events = <<>>
    /\ db_call = NoCall
    /\ \E config \in Configs, code \in Codes \cup {"None"} :
         session = [NoSession EXCEPT !.config = config, !.code = code]

\* A script run calls get_google_service.  A code Google will not exchange
\* never goes through; a good one may still fail on the network.
GetGoogleService ==
    /\ session.runs < MaxRuns
    /\ \E fetched \in (IF session.code = "good" THEN BOOLEAN ELSE {FALSE}) :
         session' = get_google_service(session, fetched)
    /\ UNCHANGED <<planner_vars, users, saved_events, db_call>>

\* The user follows the login link and Google sends the browser back to the
\* app with a code: a new page load, whose session state is empty.
FollowLogin ==
    /\ session.returned = "url"
    /\ \E code \in Codes :
         session' = [session EXCEPT !.code = code, !.has_credentials_key = FALSE,
                                    !.credentials = "None", !.returned = "nothing yet"]
    /\ UNCHANGED <<planner_vars, users, saved_events, db_call>>

\* The user presses "Try again" under the login warning: the script runs
\* again with the button pressed.
ClickTryAgain ==
    /\ session.returned = "None"
    /\ session.shown = "Login failed"
    /\ ~session.try_again
    /\ session' = [session EXCEPT !.try_again = TRUE]
    /\ UNCHANGED <<planner_vars, users, saved_events, db_call>>

NextSession == GetGoogleService \/ FollowLogin \/ ClickTryAgain

SpecSession == InitSession /\ [][NextSession]_vars

-----------------------------------------------------------------------------
(* Properties                                                              *)

\* Slot b of a busy list strictly overlaps the window [start, end).
Overlaps(start, end, b) == start < b.end.wall /\ end > b.start.wall

\* C1: check_user_availability returns False exactly when some busy slot b has
\* start < b.end and end > b.start (wall-clock times); so a list of slots
\* that only touch the window, and the empty list, give True.
C1_FreeIffNoOverlap ==
    availability.returned =>
        LET start == availability.event_start
            end   == availability.event_end
            slots == availability.user_busy_slots
        IN /\ availability.free = FALSE <=>
                \E i \in DOMAIN slots : Overlaps(start, end, slots[i])
           /\ slots = <<>> => availability.free
           /\ (\A i \in DOMAIN slots :
                 slots[i].start.wall = end \/ slots[i].end.wall = start)
              => availability.free

\* A call that returned True although the list holds a slot starting exactly
\* at the end of the window and another, of positive length, ending exactly
\* at its start.
C1_Witness ==
    /\ availability.returned
    /\ availability.free
    /\ \E i, j \in DOMAIN availability.user_busy_slots :
         /\ availability.user_busy_slots[i].start.wall = availability.event_end
         /\ availability.user_busy_slots[j].end.wall = availability.event_start
         /\ availability.user_busy_slots[j].start.wall < availability.event_start

\* The rows of the answer to the planning request.
Answer == last_run.result

\* User u is free for the window of row e: the busy map does not know u, or
\* none of u's slots strictly overlaps the window.
FreeFor(u, e) ==
    \/ u \notin DOMAIN user_busy_map
    \/ \A i \in DOMAIN user_busy_map[u] : ~Overlaps(e.Start, e.End, user_busy_map[u][i])

\* The selected users who are free for row e, in the order of selected_users.
FreePeople(e) == SelectSeq(selected_users, LAMBDA u : FreeFor(u, e))

\* C2: for every occurrence the attendee list is the subsequence of
\* selected_users, in the same order, of the people whose overlap check says
\* free; a person the busy map does not hold is always an attendee.
C2_AttendeesAreTheFreePeople ==
    \A k \in DOMAIN Answer :
        /\ Answer[k].attendees = Join(CommaSpace, FreePeople(Answer[k]))
        /\ \A i \in DOMAIN selected_users :
             selected_users[i] \notin DOMAIN user_busy_map
                => Contains(Answer[k].attendees, selected_users[i])

\* Two people are selected, the first has a busy slot over the occurrence and
\* is left out, the second has a busy slot elsewhere and is the only attendee.
C2_Witness ==
    /\ Len(selected_users) = 2
    /\ user_busy_map # << >>
    /\ \E k \in DOMAIN Answer :
         /\ Answer[k].attendees = selected_users[2]
         /\ ~FreeFor(selected_users[1], Answer[k])
         /\ user_busy_map[selected_users[2]] # <<>>

\* How many names a ", "-separated list holds.
NamesListed(s) ==
    IF s = <<>> THEN 0
    ELSE 1 + Cardinality({ i \in 1..(Len(s) - 1) : s[i] = "," /\ s[i + 1] = " " })

\* C3: every returned occurrence's attendee_count is the number of attendees
\* it lists, and is at most len(selected_users).
C3_AttendeeCount ==
    \A k \in DOMAIN Answer :
        /\ Answer[k].attendee_count = NamesListed(Answer[k].attendees)
        /\ Answer[k].attendee_count <= Len(selected_users)

\* An occurrence returned with both selected people listed, and another with
\* one of the two.
C3_Witness ==
    /\ Len(selected_users) = 2
    /\ \E j, k \in DOMAIN Answer :
         /\ Answer[j].attendee_count = 2
         /\ Answer[k].attendee_count = 1

\* C4: availability_score, interest_score and final_interest_score of every
\* returned occurrence lie in [0, 1], and sort_score in [0, 2].
C4_ScoresInUnitInterval ==
    \A k \in DOMAIN Answer :
        /\ Answer[k].availability_score \in 0..Scale
        /\ Answer[k].interest_score \in 0..Scale
        /\ Answer[k].final_interest_score \in 0..Scale
        /\ Answer[k].sort_score \in 0..(2 * Scale)

\* The columns an occurrence has in events_df.
EventColumns(r) ==
    [ idx |-> r.idx, Title |-> r.Title, Category |-> r.Category,
      Description |-> r.Description, Start |-> r.Start, End |-> r.End ]

\* C5: the answer holds exactly one entry for each occurrence of events_df
\* with at least min_attendees free people, none for an occurrence with
\* fewer, and no entry that is not an occurrence of events_df.
C5_ExactlyTheSurvivors ==
    last_run # NoRun =>
        /\ \A i \in DOMAIN events_df :
             Cardinality({ k \in DOMAIN Answer : EventColumns(Answer[k]) = events_df[i] })
               = IF Len(FreePeople(events_df[i])) >= last_run.min_attendees THEN 1 ELSE 0
        /\ \A k \in DOMAIN Answer :
             \E i \in DOMAIN events_df : EventColumns(Answer[k]) = events_df[i]

\* Of two occurrences, one has enough free people and is returned, the other
\* has one person too few and is not.
C5_Witness ==
    /\ last_run # NoRun
    /\ Len(events_df) = 2
    /\ Len(Answer) = 1
    /\ \E i \in DOMAIN events_df :
         Len(FreePeople(events_df[i])) = last_run.min_attendees - 1

\* C6: every entry's sort_score is its availability_score plus its
\* final_interest_score (the float64 sum), and no entry has a larger
\* sort_score than an entry placed before it.
C6_SortedBySortScore ==
    /\ \A k \in DOMAIN Answer :
         Answer[k].sort_score
           = FloatAdd(Answer[k].availability_score, Answer[k].final_interest_score)
    /\ \A j, k \in DOMAIN Answer :
         j < k => Answer[j].sort_score >= Answer[k].sort_score

\* The later occurrence of the table scored strictly higher and is placed
\* first.
C6_Witness ==
    /\ Len(Answer) = 2
    /\ Answer[1].idx > Answer[2].idx
    /\ Answer[1].sort_score > Answer[2].sort_score

\* C7: of two returned occurrences with equal sort_score the one with the
\* larger attendee_count is placed first, and with equal attendee_count the
\* one that came earlier in events_df.
C7_TiesByAttendeeCountThenInputOrder ==
    \A j, k \in DOMAIN Answer :
        (j < k /\ Answer[j].sort_score = Answer[k].sort_score)
            => \/ Answer[j].attendee_count > Answer[k].attendee_count
               \/ /\ Answer[j].attendee_count = Answer[k].attendee_count
                  /\ Answer[j].idx < Answer[k].idx

\* C8: a second run of find_best_slots_for_group on the same events_df,
\* busy map, selected users, preferences and min_attendees returns the same
\* occurrences in the same order with the same attendees, matched_tags and
\* scores as the first.
C8_SameInputsSameAnswer ==
    (prev_run # NoRun /\ prev_run.min_attendees = last_run.min_attendees)
        => last_run.result = prev_run.result

\* The occurrences a run returned.
Survivors(run) == { EventColumns(run.result[k]) : k \in DOMAIN run.result }

\* C9: with events_df, busy map and selected users fixed, the occurrences
\* that survive a threshold m2 are among those that survive any m1 <= m2.
C9_HigherThresholdFewerSurvivors ==
    prev_run # NoRun =>
        /\ prev_run.min_attendees <= last_run.min_attendees
             => Survivors(last_run) \subseteq Survivors(prev_run)
        /\ last_run.min_attendees <= prev_run.min_attendees
             => Survivors(prev_run) \subseteq Survivors(last_run)

\* The second request raised the threshold and lost one of the two
\* occurrences the first had returned.
C9_Witness ==
    /\ prev_run # NoRun
    /\ prev_run.min_attendees < last_run.min_attendees
    /\ Cardinality(Survivors(prev_run)) = 2
    /\ Cardinality(Survivors(last_run)) = 1

\* The rows of a frame in the order of their index labels, which is the
\* order they had before the sort.
ByLabel(rows) ==
    [ k \in DOMAIN rows |->
        CHOOSE r \in Range(rows) :
            Cardinality({ q \in Range(rows) : q.idx < r.idx }) = k - 1 ]

\* The similarity computation of the answer's batch went through.
SimilaritySucceeded ==
    LET rows == ByLabel(Answer)
    IN ~MlRaises(rows, Fit([k \in DOMAIN rows |-> EventFeatures(rows[k])]))

\* The similarity the fallback assigns to row r of the answer's batch.
FallbackOf(r) ==
    LET rows   == ByLabel(Answer)
        fitted == Fit([k \in DOMAIN rows |-> EventFeatures(rows[k])])
    IN CosineSimilarity(TfidfVector(fitted, Analyze(r.group_prefs_text)),
                        TfidfVector(fitted, fitted[r.idx + 1]))

\* C10: in a batch of two or more surviving occurrences whose similarity
\* computation succeeds, an occurrence with interest_score > 0 has
\* final_interest_score = interest_score, and an occurrence with
\* interest_score = 0, and no other, has the similarity as its
\* final_interest_score.
C10_KeywordHitBeatsSimilarity ==
    (Len(Answer) >= 2 /\ SimilaritySucceeded) =>
        \A k \in DOMAIN Answer :
            IF Answer[k].interest_score > 0
            THEN Answer[k].final_interest_score = Answer[k].interest_score
            ELSE Answer[k].final_interest_score = FallbackOf(Answer[k])

\* A batch of two in which one occurrence has a keyword hit, with a
\* similarity that differs from its interest_score, and the other has none
\* and a positive similarity.
C10_Witness ==
    /\ Len(Answer) = 2
    /\ SimilaritySucceeded
    /\ \E j, k \in DOMAIN Answer :
         /\ Answer[j].interest_score > 0
         /\ Answer[j].idx + 1 \in DOMAIN Answer
         /\ FallbackOf(Answer[j]) # Answer[j].interest_score
         /\ Answer[k].interest_score = 0
         /\ Answer[k].final_interest_score > 0

\* C11: when exactly one occurrence survives the attendance filter, its
\* final_interest_score is 0.5 if its interest_score is 0 and its
\* interest_score otherwise, whatever the similarity would have been.
C11_SingleSurvivorNeutral ==
    Len(Answer) = 1 =>
        Answer[1].final_interest_score =
            IF Answer[1].interest_score = 0 THEN Scale \div 2
            ELSE Answer[1].interest_score

\* Of two occurrences one survives, without keyword hit, although its
\* attendee's preference text shares both terms with its features: it gets
\* 0.5, not the similarity.
C11_Witness ==
    /\ Len(events_df) = 2
    /\ Len(Answer) = 1
    /\ Answer[1].interest_score = 0
    /\ Answer[1].final_interest_score = Scale \div 2
    /\ Analyze(Answer[1].group_prefs_text) # <<>>
    /\ Range(Analyze(Answer[1].group_prefs_text)) = Range(Analyze(EventFeatures(Answer[1])))

\* C12: when the similarity computation of a batch fails, on an empty
\* vocabulary or while scoring a row after others were scored, the call does
\* not raise and every row of the batch has final_interest_score equal to
\* its own interest_score.
C12_FailureFallsBackToInterest ==
    /\ last_run.raised = "None"
    /\ (Len(Answer) >= 2 /\ ~SimilaritySucceeded) =>
          \A k \in DOMAIN Answer :
              Answer[k].final_interest_score = Answer[k].interest_score

\* A batch labelled 1 and 2: the first row, without keyword hit, had a
\* positive similarity to the matrix row its label selects, then the second
\* row's label was out of range; both rows ended with their interest_score, 0.
C12_Witness ==
    /\ last_run.raised = "None"
    /\ Len(Answer) = 2
    /\ \E j, k \in DOMAIN Answer :
         /\ Answer[j].idx = 1 /\ Answer[k].idx = 2
         /\ Answer[j].interest_score = 0 /\ Answer[k].interest_score = 0
         /\ FallbackOf(Answer[j]) > 0
         /\ Answer[j].final_interest_score = 0
         /\ Answer[k].final_interest_score = 0

\* C13: the call returns an empty result, and does not raise, whenever
\* events_df is empty or no occurrence has min_attendees free people, an
\* empty selection with min_attendees >= 1 included.
C13_EmptyWithoutRaising ==
    (/\ last_run # NoRun
     /\ \A i \in DOMAIN events_df :
            Len(FreePeople(events_df[i])) < last_run.min_attendees)
        => Answer = <<>> /\ last_run.raised = "None"

\* Nobody is selected, the table holds occurrences and the threshold is 1 or
\* more: the request was served with an empty result.
C13_Witness ==
    /\ last_run # NoRun
    /\ last_run.raised = "None"
    /\ selected_users = <<>>
    /\ events_df # <<>>
    /\ last_run.min_attendees >= 1
    /\ Answer = <<>>

\* The lowercased text of row r: category, description and title.
Blob(r) == Lower(r.Category \o Space \o r.Description \o Space \o r.Title)

\* Person u holds a comma-separated tag whose trimmed form is not empty and,
\* lowercased, occurs in the text of row r.
Likes(u, r) ==
    LET tags == SplitComma(IF u \in DOMAIN all_user_prefs THEN all_user_prefs[u] ELSE <<>>)
    IN \E i \in DOMAIN tags :
          /\ Strip(tags[i]) # <<>>
          /\ Contains(Blob(r), Lower(Strip(tags[i])))

\* C14: every returned occurrence's interest_score is the number of its
\* attendees who hold at least one matching tag, divided by the number of
\* its attendees, and 0 when it has no attendees; an attendee with several
\* matching tags counts once, an attendee without tags never.
C14_InterestIsShareOfHappyAttendees ==
    \A k \in DOMAIN Answer :
        LET r     == Answer[k]
            att   == FreePeople(r)
            happy == Cardinality({ i \in DOMAIN att : Likes(att[i], r) })
        IN r.interest_score =
              IF Len(att) = 0 THEN 0 ELSE (Scale * happy) \div Len(att)

\* An occurrence with two attendees: one holds two tags that both match,
\* the other holds no tag; interest_score is 0.5.
C14_Witness ==
    \E k \in DOMAIN Answer :
        /\ Answer[k].attendee_count = 2
        /\ Answer[k].interest_score = Scale \div 2
        /\ \E u, v \in Range(selected_users) :
             /\ all_user_prefs[u] = <<>>
             /\ Cardinality(UserMatches(all_user_prefs[v], Blob(Answer[k]))) = 2

\* The tags, trimmed, that the attendees of row r hold and that match its text.
MatchedBy(r) ==
    UNION { { Strip(t) : t \in { x \in Range(SplitComma(all_user_prefs[u])) :
                                   /\ Strip(x) # <<>>
                                   /\ Contains(Blob(r), Lower(Strip(x))) } }
            : u \in Range(FreePeople(r)) }

\* The entries of a ", "-separated list.
Listed(s) == { Strip(x) : x \in Range(SplitComma(s)) }

SoccerScenario ==
    /\ selected_users = <<Alice, Bob>>
    /\ Len(events_df) = 1
    /\ events_df[1].Title = Soccer /\ events_df[1].Category = Sport
    /\ ~FreeFor(Alice, events_df[1])
    /\ FreeFor(Bob, events_df[1])
    /\ all_user_prefs[Alice] = Sport
    /\ all_user_prefs[Bob] = <<>>

\* C16: in the scenario the call (min_attendees 1, or 0) returns one entry,
\* with Bob as the only attendee, attendee_count 1, availability_score 0.5,
\* interest_score 0, final_interest_score 0.5 and sort_score 1.0.
C16_SoccerScenario ==
    (last_run # NoRun /\ last_run.min_attendees <= 1 /\ SoccerScenario) =>
        /\ Len(Answer) = 1
        /\ EventColumns(Answer[1]) = events_df[1]
        /\ Answer[1].attendees = Bob
        /\ Answer[1].attendee_count = 1
        /\ 2 * Answer[1].availability_score = Scale
        /\ Answer[1].interest_score = 0
        /\ 2 * Answer[1].final_interest_score = Scale
        /\ Answer[1].sort_score = Scale

\* The scenario as told, served with min_attendees = 1: the occurrence takes
\* the first hour and Alice's one busy slot the first two, Bob's list is empty.
C16_Witness ==
    /\ last_run.min_attendees = 1
    /\ SoccerScenario
    /\ events_df[1].Start = 0 /\ events_df[1].End = 1
    /\ user_busy_map # << >>
    /\ Len(user_busy_map[Alice]) = 1
    /\ user_busy_map[Alice][1].start.wall = 0 /\ user_busy_map[Alice][1].end.wall = 2
    /\ user_busy_map[Bob] = <<>>
    /\ Len(Answer) = 1
    /\ Answer[1].sort_score = Scale

\* C17: in a batch of two occurrences with equal availability_score, one
\* with a keyword hit for all its attendees (interest_score 1.0) and one
\* without any (interest_score 0) that receives the similarity, the
\* occurrence with the keyword hit is ranked first, whatever the similarity.
C17_ExactMatchRanksFirst ==
    (Len(Answer) = 2 /\ SimilaritySucceeded) =>
        \A j, k \in DOMAIN Answer :
            (/\ Answer[j].availability_score = Answer[k].availability_score
             /\ Answer[j].interest_score = Scale
             /\ Answer[k].interest_score = 0)
                => j < k

-----------------------------------------------------------------------------
(* Properties of load_local_events                                         *)

\* The header of the file read, as the loader matches it.
SourceColumns == NormalizeColumns(local_events.file.columns)

\* The cells of the source rows that the weekly generator reads.
SourceRows ==
    LET columns == SourceColumns
        name    == CHOOSE c \in DOMAIN columns : columns[c] = event_name_col
        weekday == CHOOSE c \in DOMAIN columns : columns[c] = weekday_col
        start   == CHOOSE c \in DOMAIN columns : columns[c] = start_time_col
        end     == CHOOSE c \in DOMAIN columns : columns[c] = end_time_col
    IN [ i \in DOMAIN local_events.file.rows |->
           LET row == local_events.file.rows[i]
           IN [ event_name |-> row[name], weekday |-> row[weekday],
                start_time |-> row[start], end_time |-> row[end] ] ]

\* Both time cells of a source row hold a time of day.
ValidTimes(row) ==
    /\ row.start_time.kind \in {"time", "text"}
    /\ row.end_time.kind \in {"time", "text"}

\* The days today .. today + 29
Horizon == local_events.today .. (local_events.today + HorizonDays - 1)

\* The occurrences titled name that start on day d / on any day.
OccurrencesOn(name, d) ==
    { k \in DOMAIN local_events.rows :
        local_events.rows[k].Title = name /\ local_events.rows[k].Start.date = d }

OccurrencesOf(name) == { k \in DOMAIN local_events.rows : local_events.rows[k].Title = name }

WeeklyReturned == local_events.returned /\ local_events.branch = "weekly"

\* C18: from a weekly file, the rows of one name, all with valid times, give
\* on each day of today .. today + 29 as many occurrences of that name as
\* there are such rows of the weekday of that day, and none on any other
\* day; a single such row gives 4 or 5 occurrences when its weekday is in
\* 0..6 and none when it is not.
C18_OnePerMatchingDay ==
    WeeklyReturned =>
        LET rows == SourceRows
        IN \A i \in DOMAIN rows :
            LET same == { j \in DOMAIN rows : rows[j].event_name = rows[i].event_name }
                all  == OccurrencesOf(rows[i].event_name)
            IN (\A j \in same : ValidTimes(rows[j])) =>
                 /\ \A k \in all : local_events.rows[k].Start.date \in Horizon
                 /\ \A d \in Horizon :
                      Cardinality(OccurrencesOn(rows[i].event_name, d)) =
                          Cardinality({ j \in same : rows[j].weekday = d % DaysPerWeek })
                 /\ same = {i} /\ rows[i].weekday \in 0..(DaysPerWeek - 1)
                        => Cardinality(all) \in {4, 5}
                 /\ same = {i} /\ rows[i].weekday \notin 0..(DaysPerWeek - 1) => all = {}

\* A file of two rows: the first, with valid times, occurred five times and
\* the second, whose weekday is no weekday, never.
C18_Witness ==
    /\ WeeklyReturned
    /\ Len(SourceRows) = 2
    /\ ValidTimes(SourceRows[1])
    /\ Cardinality(OccurrencesOf(SourceRows[1].event_name)) = 5
    /\ ValidTimes(SourceRows[2])
    /\ SourceRows[2].weekday = DaysPerWeek
    /\ OccurrencesOf(SourceRows[2].event_name) = {}

\* The end the overnight rule asks for: the next day when the end time of
\* day is not after the start time of day or is 00:00.
RolledEnd(D, s, e) ==
    IF e <= s \/ e = Midnight THEN Combine(D + 1, e) ELSE Combine(D, e)

\* Source row `row` accounts for occurrence `occ`.
Accounts(row, occ) ==
    /\ occ.Title = row.event_name
    /\ occ.Start.date % DaysPerWeek = row.weekday
    /\ occ.Start.time = TimeOf(row.start_time)
    /\ occ.End = RolledEnd(occ.Start.date, TimeOf(row.start_time), TimeOf(row.end_time))

\* C19: a weekly row with valid times has, on every day D of its weekday
\* within the horizon, an occurrence that starts on D at its start time and
\* ends at its end time on D+1 when the end time of day is not after the
\* start time of day or is 00:00, and on D otherwise; and every occurrence
\* of a name whose rows all have valid times is one of these.
C19_OvernightRollsToNextDay ==
    WeeklyReturned =>
        LET rows == SourceRows
        IN /\ \A i \in DOMAIN rows : \A D \in Horizon :
                ValidTimes(rows[i]) /\ rows[i].weekday = D % DaysPerWeek =>
                    \E k \in DOMAIN local_events.rows :
                        /\ local_events.rows[k].Start.date = D
                        /\ Accounts(rows[i], local_events.rows[k])
           /\ \A k \in DOMAIN local_events.rows :
                LET same == { j \in DOMAIN rows :
                                rows[j].event_name = local_events.rows[k].Title }
                IN (\A j \in same : ValidTimes(rows[j])) =>
                       \E j \in same : Accounts(rows[j], local_events.rows[k])

\* A Wednesday row from the last tick of the day to the first tick after
\* midnight gave an occurrence from a Wednesday D to D+1.
C19_Witness ==
    /\ WeeklyReturned
    /\ \E i \in DOMAIN SourceRows :
         /\ SourceRows[i].weekday = 2
         /\ SourceRows[i].start_time = TimeObject(MaxTick)
         /\ SourceRows[i].end_time = TimeObject(1)
         /\ \E k \in DOMAIN local_events.rows :
              /\ local_events.rows[k].Title = SourceRows[i].event_name
              /\ local_events.rows[k].Start.date % DaysPerWeek = 2
              /\ local_events.rows[k].Start.time = MaxTick
              /\ local_events.rows[k].End =
                     Combine(local_events.rows[k].Start.date + 1, 1)

\* t1 is before t2.
Before(t1, t2) == t1.date < t2.date \/ (t1.date = t2.date /\ t1.time < t2.time)

\* t2 is at most one day after t1.
WithinADay(t1, t2) ==
    t2.date = t1.date \/ (t2.date = t1.date + 1 /\ t2.time <= t1.time)

\* C20: every occurrence from a weekly file starts strictly before it ends
\* and lasts at most 24 hours, whatever the start and end times of day.
C20_PositiveDurationUpToADay ==
    WeeklyReturned =>
        \A k \in DOMAIN local_events.rows :
            /\ Before(local_events.rows[k].Start, local_events.rows[k].End)
            /\ WithinADay(local_events.rows[k].Start, local_events.rows[k].End)

\* A row whose start and end times of day are equal gave occurrences of a
\* full day each.
C20_Witness ==
    /\ WeeklyReturned
    /\ Len(SourceRows) = 1
    /\ SourceRows[1].start_time.tick = SourceRows[1].end_time.tick
    /\ SourceRows[1].start_time.tick = MaxTick
    /\ local_events.rows # <<>>
    /\ \A k \in DOMAIN local_events.rows :
         /\ local_events.rows[k].End.date = local_events.rows[k].Start.date + 1
         /\ local_events.rows[k].End.time = local_events.rows[k].Start.time

\* C21: in a weekly file, the rows of a name that all lack a readable start
\* or end time give no occurrence, while the rows with valid times still
\* give theirs on every day of their weekday.
C21_BadTimesSkipTheRow ==
    WeeklyReturned =>
        LET rows == SourceRows
        IN /\ \A i \in DOMAIN rows :
                LET same == { j \in DOMAIN rows : rows[j].event_name = rows[i].event_name }
                IN (\A j \in same : ~ValidTimes(rows[j])) =>
                       OccurrencesOf(rows[i].event_name) = {}
           /\ \A i \in DOMAIN rows : \A D \in Horizon :
                ValidTimes(rows[i]) /\ rows[i].weekday = D % DaysPerWeek =>
                    OccurrencesOn(rows[i].event_name, D) # {}

\* The file is what its reader reads: a workbook behind an Excel suffix, a
\* CSV table behind any other.
Supported(file) ==
    IF file.suffix \in ExcelSuffixes THEN file.content = "workbook" ELSE file.content = "csv"

\* C22: load_local_events always returns, and what it returns for a file
\* that is missing, that its reader cannot read or that is neither a
\* workbook nor a CSV table is empty.
C22_EmptyForBadFiles ==
    local_events.returned =>
        /\ local_events.branch \in {"weekly", "fixed", "except"}
        /\ ~Supported(local_events.file) => local_events.rows = <<>>

\* The table read has a Start and an End column, whatever the case of and
\* the blanks around the names in its header.
FixedDateSource(file) ==
    /\ ~ReadRaises(file)
    /\ \E i \in DOMAIN file.columns : Lower(Strip(file.columns[i])) = Lower(Start_col)
    /\ \E i \in DOMAIN file.columns : Lower(Strip(file.columns[i])) = Lower(End_col)

\* Every Start and End cell of the table read spells an instant.
SpellsInstants(file) ==
    \A k \in DOMAIN file.rows : \A i \in DOMAIN file.columns :
        Lower(Strip(file.columns[i])) \in {Lower(Start_col), Lower(End_col)}
            => file.rows[k][i].kind # "junk"

NaiveTimestamp(v) == v.kind = "timestamp" /\ v.tzinfo = "None"

\* C23: every row that load_local_events returns for a fixed-date table
\* has, under the columns 'Start' and 'End' that the overlap check and the
\* ranking read, timestamps without a time zone.
C23_FixedRowsAreNaiveTimestamps ==
    local_events.returned /\ FixedDateSource(local_events.file)
      /\ SpellsInstants(local_events.file)
    => /\ local_events.branch = "fixed"
       /\ Len(local_events.rows) = Len(local_events.file.rows)
       /\ HasColumn(local_events.columns, Start_col)
       /\ HasColumn(local_events.columns, End_col)
       /\ \A k \in DOMAIN local_events.rows :
            /\ NaiveTimestamp(Cell(local_events.columns, local_events.rows[k], Start_col))
            /\ NaiveTimestamp(Cell(local_events.columns, local_events.rows[k], End_col))

\* The sentinel of the specification for a location that is not known.
Unknown == <<"u","n","k","n","o","w","n">>

\* C24: every occurrence from a weekly file of one row that has no location
\* column, or whose location cell is empty, has the location "unknown".
C24_UnknownLocationSentinel ==
    WeeklyReturned /\ Len(local_events.file.rows) = 1 =>
        LET columns == SourceColumns
            row     == local_events.file.rows[1]
        IN ~HasColumn(columns, location_col) \/ Cell(columns, row, location_col) = NaN =>
               \A k \in DOMAIN local_events.rows : local_events.rows[k].location = Unknown

DerivedColumns ==
    { "attendees", "attendee_count", "group_prefs_text", "matched_tags",
      "interest_score", "availability_score", "final_interest_score", "sort_score" }

\* C25: a planning request leaves the occurrence table, the busy map, the
\* selection and the tag map as they were, and no row of the occurrence
\* table has any of the derived columns afterwards.
C25_InputsUnchanged ==
    [][ /\ events_df' = events_df
        /\ user_busy_map' = user_busy_map
        /\ selected_users' = selected_users
        /\ all_user_prefs' = all_user_prefs
        /\ \A k \in DOMAIN events_df' : DOMAIN events_df'[k] \cap DerivedColumns = {} ]_vars

\* A request returned two rows with their derived columns, and the table it
\* was served from has none of them.
C25_Witness ==
    /\ last_run # NoRun
    /\ Len(last_run.result) = 2
    /\ \A k \in DOMAIN last_run.result : DerivedColumns \subseteq DOMAIN last_run.result[k]
    /\ \A k \in DOMAIN events_df : DOMAIN events_df[k] \cap DerivedColumns = {}

\* The similarity of row r's attendees' tag text to row r's own feature text,
\* in the batch of the answer.
OwnSimilarity(r) ==
    LET rows   == ByLabel(Answer)
        fitted == Fit([k \in DOMAIN rows |-> EventFeatures(rows[k])])
    IN CosineSimilarity(TfidfVector(fitted, Analyze(r.group_prefs_text)),
                        TfidfVector(fitted, Analyze(EventFeatures(r))))

\* The feature texts of the answer's batch have a term to learn.
HasVocabulary ==
    Vocabulary(Fit([k \in DOMAIN Answer |-> EventFeatures(Answer[k])])) # {}

\* C26: in a batch of two or more surviving occurrences with a vocabulary,
\* every occurrence with interest_score = 0 has as final_interest_score the
\* similarity of its attendees' combined tag text to its own feature text,
\* whatever the index labels of the surviving rows.
C26_SimilarityToOwnFeatures ==
    (Len(Answer) >= 2 /\ HasVocabulary) =>
        \A k \in DOMAIN Answer :
            Answer[k].interest_score = 0 =>
                Answer[k].final_interest_score = OwnSimilarity(Answer[k])

-----------------------------------------------------------------------------
(* Properties of the database                                              *)

\* No email: None or the empty string.
EmptyEmail(email) == email = None \/ email = <<>>

\* No email, or blanks only.
BlankEmail(email) == EmptyEmail(email) \/ Strip(email) = <<>>

\* No two rows of the table have the same email.
OneRowPerEmail(table) ==
    \A j, k \in DOMAIN table : table[j].email = table[k].email => j = k

\* What a step of add_user does, Empty saying which emails count as empty:
\* an email that is stored is updated in place, a new one is added as one
\* row, an empty one always adds a row; and the table has one row per email.
AddUserStep(Empty(_)) ==
    db_call'.op = "add_user" =>
        LET name   == db_call'.args[1]
            email  == db_call'.args[2]
            prefs  == PrefsStr(db_call'.args[3])
            before == users
            after  == users'
        IN /\ OneRowPerEmail(after)
           /\ IF Empty(email)
              THEN /\ Len(after) = Len(before) + 1
                   /\ SubSeq(after, 1, Len(before)) = before
                   /\ after[Len(after)].name = name
              ELSE IF \E k \in DOMAIN before : before[k].email = email
                   THEN /\ db_call'.returned = <<TRUE, "updated">>
                        /\ Len(after) = Len(before)
                        /\ \A k \in DOMAIN before :
                             IF before[k].email = email
                             THEN after[k] = [before[k] EXCEPT !.name = name,
                                                               !.preferences = prefs]
                             ELSE after[k] = before[k]
                   ELSE /\ db_call'.returned = <<TRUE, "created">>
                        /\ Len(after) = Len(before) + 1
                        /\ SubSeq(after, 1, Len(before)) = before
                        /\ after[Len(after)].name = name
                        /\ after[Len(after)].email = email
                        /\ after[Len(after)].preferences = prefs

\* C27 as stated: one row per email after every add_user; a stored email is
\* updated with (True, "updated"), a new non-empty email is added with
\* (True, "created"), an empty email always adds a row.
C27_UpsertByEmail == [][AddUserStep(EmptyEmail)]_vars

\* C27 with blank emails counted as empty: one row per email after every
\* add_user; a stored email is updated with (True, "updated"), a new email
\* that is not blank is added with (True, "created"), and an email that is
\* empty or blank always adds a row.
C27_UpsertByNonBlankEmail == [][AddUserStep(BlankEmail)]_vars

\* Three calls left two rows: the last updated a stored email, and an
\* earlier one, without email, was stored under a made-up address.
C27_Witness ==
    /\ db_call.count = 3
    /\ db_call.returned = <<TRUE, "updated">>
    /\ Len(users) = 2
    /\ \E k \in DOMAIN users : \E n \in 1..MaxCalls : users[k].email = DummyEmail(n)

\* C28: no two stored users have the same display name, and the tag map
\* that the planner builds from get_all_users gives every stored person
\* that person's own tags.
C28_UniqueDisplayNames ==
    /\ \A j, k \in DOMAIN users : users[j].name = users[k].name => j = k
    /\ LET user_prefs_dict == UserPrefsDict(get_all_users(users))
       IN \A k \in DOMAIN users : user_prefs_dict[users[k].name] = users[k].preferences

\* No two rows of the table have the same title and start_time.
OneRowPerTitleAndStart(table) ==
    \A j, k \in DOMAIN table :
        table[j].title = table[k].title /\ table[j].start_time = table[k].start_time
            => j = k

\* C29: after every add_saved_event no two saved events have the same
\* (title, start_time); a call whose pair is stored returns False and leaves
\* the table as it was, a call with a new pair returns True and adds exactly
\* one row, holding what was passed.
C29_NoDuplicateSavedEvents ==
    [][ db_call'.op = "add_saved_event" =>
          LET a      == db_call'.args
              before == saved_events
              after  == saved_events'
          IN /\ OneRowPerTitleAndStart(after)
             /\ IF \E k \in DOMAIN before :
                       before[k].title = a[1] /\ before[k].start_time = a[2]
                THEN db_call'.returned = FALSE /\ after = before
                ELSE /\ db_call'.returned = TRUE
                     /\ Len(after) = Len(before) + 1
                     /\ SubSeq(after, 1, Len(before)) = before
                     /\ after[Len(after)].title = a[1]
                     /\ after[Len(after)].start_time = a[2]
                     /\ after[Len(after)].color = a[4] ]_vars

\* Three calls left two rows of one title: the last call repeated a stored
\* pair in another colour and was refused.
C29_Witness ==
    /\ db_call.op = "add_saved_event"
    /\ db_call.count = 3
    /\ db_call.returned = FALSE
    /\ Len(saved_events) = 2
    /\ saved_events[1].title = saved_events[2].title
    /\ \E k \in DOMAIN saved_events :
         /\ saved_events[k].title = db_call.args[1]
         /\ saved_events[k].start_time = db_call.args[2]
         /\ saved_events[k].color # db_call.args[4]

-----------------------------------------------------------------------------
(* Properties of the login flow                                            *)

\* The configuration gives get_google_service a flow.
Configured(s) == s.config \in {"secrets", "file"}

\* What a step of the session does.  A call returns a service only with
\* credentials set; credentials become set only in a call that exchanged the
\* code of the URL; without credentials and code a configured call returns
\* the login URL; a failed exchange or a missing or unreadable configuration
\* leaves the credentials unset and returns None -- or, where restarts is
\* allowed and "Try again" was pressed, returns nothing and restarts the
\* script with the code removed; with credentials set a call returns a
\* service, exchanges nothing and keeps the credentials.
LoginStep(restarts) ==
    LET before == session
        after  == session'
        call   == after.runs = before.runs + 1
    IN /\ before.credentials = "None" /\ after.credentials # "None" =>
              call /\ before.code # "None" /\ after.fetch = "done"
       /\ call =>
            /\ after.returned = "service" => after.credentials # "None"
            /\ before.credentials = "None" /\ before.code = "None" /\ Configured(before)
                   => after.returned = "url"
            /\ before.credentials = "None" /\ (after.fetch = "failed" \/ ~Configured(before))
                   => /\ after.credentials = "None"
                      /\ \/ after.returned = "None"
                         \/ /\ restarts
                            /\ before.try_again
                            /\ after.returned = "no return"
                            /\ after.code = "None"
            /\ before.credentials # "None"
                   => /\ after.returned = "service"
                      /\ after.fetch = "none"
                      /\ after.credentials = before.credentials

\* C30 as stated: every failed exchange returns None.
C30_LoginFlow == [][LoginStep(FALSE)]_vars

\* C30 with the restart: a failed exchange returns None unless "Try again"
\* was pressed, in which case the call removes the code and restarts the
\* script without returning.
C30_LoginFlowWithRestart == [][LoginStep(TRUE)]_vars

\* A session whose third or later call returned a service for the stored
\* credentials: at the least a first call, an exchange and this one.
C30_Witness ==
    /\ session.returned = "service"
    /\ session.credentials # "None"
    /\ session.code = "None"
    /\ session.runs >= 3

====
